---- MODULE Spec2Model ----
(***************************************************************************)
(* A model of jeopardy1.py: the Board (title, categories, questions,       *)
(* media), the session state kept in st.session_state, the JSON document   *)
(* written by serialize_board and read by deserialize_board, and one       *)
(* action per user intent.  An action is one run of main(): the widget     *)
(* callback (if any), sidebar_editor with its upload block, render_board.  *)
(* The blocking countdown of render_board is the one handler that takes    *)
(* more than one step: one step per second shown.                          *)
(***************************************************************************)
EXTENDS Integers, Sequences, FiniteSets, TLC

VARIABLES
    board,              \* st.session_state.board
    used_qids,          \* st.session_state.used_qids
    active_qid,         \* st.session_state.active_qid
    reveal_answer,      \* st.session_state.reveal_answer
    scores,             \* st.session_state.scores
    team_colors,        \* st.session_state.team_colors
    upload_board_last,  \* st.session_state.upload_board_last
    uploaded,           \* the file held by the "Load board (.json)" uploader
    uuid_count,         \* how many uuid4() values have been drawn
    pc,                 \* "idle" | "countdown": where the script of render_board is
    remaining,          \* the value of the countdown loop variable last shown
    timer_qid,          \* id of the question q the countdown loop holds
    callback_stale,     \* the Board bound to "Add Category" is no longer the session's
    intent,             \* history: the intent the last step processed, and its outcome
    was_used,           \* history: ids marked used since the last reset
    document            \* the text handed to the download button / save file

vars == <<board, used_qids, active_qid, reveal_answer, scores, team_colors,
          upload_board_last, uploaded, uuid_count, pc, remaining, timer_qid,
          callback_stale, intent, was_used, document>>

----------------------------------------------------------------------------
(* Bounds of the model *)

MaxCategories == 2
MaxQuestions == 2
MaxUuid == 3
MaxScoreClicks == 2
MaxShown == 3

(* Program constants *)

DefaultTimer == 30
MinTimer == 5
ScoreStep == 100

(* Python's None; no text of the model equals it *)
None == "<None>"
NoDoc == [kind |-> "none"]

----------------------------------------------------------------------------
(* Data model: MediaItem, Question, Category, Board *)

MediaItem(kind, source, filename, mime, b64, url) ==
    [kind |-> kind, source |-> source, filename |-> filename,
     mime |-> mime, b64 |-> b64, url |-> url]

Question(id, points, prompt, answer, media, timer_seconds) ==
    [id |-> id, points |-> points, prompt |-> prompt, answer |-> answer,
     media |-> media, timer_seconds |-> timer_seconds]

Category(id, name, questions) ==
    [id |-> id, name |-> name, questions |-> questions]

Board(title, categories) == [title |-> title, categories |-> categories]

new_board == Board("Jeopardy!", <<>>)

(* str(uuid.uuid4()): a value never drawn before *)
uuid4(n) == "u" \o ToString(n)

----------------------------------------------------------------------------
(* Sequence helpers: Python list comprehensions *)

Range(s) == {s[i] : i \in DOMAIN s}

RECURSIVE Flatten(_)
Flatten(ss) == IF ss = <<>> THEN <<>> ELSE Head(ss) \o Flatten(Tail(ss))

AllQuestions(b) == Flatten([i \in DOMAIN b.categories |-> b.categories[i].questions])
QuestionIds(b) == {q.id : q \in Range(AllQuestions(b))}
CategoryIds(b) == {c.id : c \in Range(b.categories)}

(* find_question: the first category, and in it the first question, with that id *)
FirstIndex(s, P(_)) ==
    IF \E i \in DOMAIN s : P(s[i])
    THEN CHOOSE i \in DOMAIN s : P(s[i]) /\ \A j \in 1..(i - 1) : ~P(s[j])
    ELSE 0

NotFound == [cat |-> 0, q |-> 0]

find_question(b, qid) ==
    LET HasQ(c) == \E q \in Range(c.questions) : q.id = qid
        ci == FirstIndex(b.categories, HasQ)
    IN  IF ci = 0 THEN NotFound
        ELSE LET IsQ(q) == q.id = qid
             IN  [cat |-> ci, q |-> FirstIndex(b.categories[ci].questions, IsQ)]

category_by_id(b, cid) ==
    LET IsC(c) == c.id = cid IN FirstIndex(b.categories, IsC)

----------------------------------------------------------------------------
(* The JSON document.  A JSON scalar is tagged with its type; an object is  *)
(* a record whose domain is the set of keys it has.                        *)

JStr(s) == [t |-> "str", s |-> s, n |-> 0]
JInt(n) == [t |-> "int", s |-> "", n |-> n]
JNull == [t |-> "null", s |-> "", n |-> 0]
NotJson == [kind |-> "not json"]

(* json.dumps of a str-or-None and of an int; json.loads of a scalar *)
DumpStr(v) == IF v = None THEN JNull ELSE JStr(v)
DumpInt(n) == JInt(n)
LoadScalar(j) == IF j.t = "null" THEN None ELSE j.s

(* int(x): an int as it is, a str by its decimal reading, ValueError or     *)
(* TypeError for anything else                                             *)
DecimalStrings == [s \in {"200", "5"} |-> IF s = "200" THEN 200 ELSE 5]
IntOk(j) == j.t = "int" \/ (j.t = "str" /\ j.s \in DOMAIN DecimalStrings)
IntOf(j) == IF j.t = "int" THEN j.n ELSE DecimalStrings[j.s]

(* dict.get(key, default) *)
Get(obj, key, default) == IF key \in DOMAIN obj THEN obj[key] ELSE default

asdict_media(m) ==
    [kind |-> DumpStr(m.kind), source |-> DumpStr(m.source),
     filename |-> DumpStr(m.filename), mime |-> DumpStr(m.mime),
     b64 |-> DumpStr(m.b64), url |-> DumpStr(m.url)]

asdict_question(q) ==
    [id |-> DumpStr(q.id), points |-> DumpInt(q.points),
     prompt |-> DumpStr(q.prompt), answer |-> DumpStr(q.answer),
     media |-> [i \in DOMAIN q.media |-> asdict_media(q.media[i])],
     timer_seconds |-> DumpInt(q.timer_seconds)]

asdict_category(c) ==
    [id |-> DumpStr(c.id), name |-> DumpStr(c.name),
     questions |-> [i \in DOMAIN c.questions |-> asdict_question(c.questions[i])]]

serialize_board(b) ==
    [title |-> DumpStr(b.title),
     categories |-> [i \in DOMAIN b.categories |-> asdict_category(b.categories[i])]]

(* deserialize_board: each *_ok says the construction raises nothing *)
to_media_ok(m) == {"kind", "source"} \subseteq DOMAIN m

to_media(m) ==
    MediaItem(LoadScalar(m.kind), LoadScalar(m.source),
              LoadScalar(Get(m, "filename", JNull)), LoadScalar(Get(m, "mime", JNull)),
              LoadScalar(Get(m, "b64", JNull)), LoadScalar(Get(m, "url", JNull)))

to_q_ok(q) ==
    /\ {"id", "points", "prompt", "answer"} \subseteq DOMAIN q
    /\ IntOk(q.points)
    /\ \A m \in Range(Get(q, "media", <<>>)) : to_media_ok(m)
    /\ IntOk(Get(q, "timer_seconds", JInt(DefaultTimer)))

(* a reader that drops the stored duration and takes the default *)
to_q_default_timer(q) ==
    LET media == Get(q, "media", <<>>)
    IN  Question(LoadScalar(q.id), IntOf(q.points), LoadScalar(q.prompt),
                 LoadScalar(q.answer), [i \in DOMAIN media |-> to_media(media[i])],
                 DefaultTimer)

to_q(q) ==
    LET media == Get(q, "media", <<>>)
    IN  Question(LoadScalar(q.id), IntOf(q.points), LoadScalar(q.prompt),
                 LoadScalar(q.answer), [i \in DOMAIN media |-> to_media(media[i])],
                 IntOf(Get(q, "timer_seconds", JInt(DefaultTimer))))

to_cat_ok(c) ==
    /\ {"id", "name"} \subseteq DOMAIN c
    /\ \A q \in Range(Get(c, "questions", <<>>)) : to_q_ok(q)

to_cat(c) ==
    LET qs == Get(c, "questions", <<>>)
    IN  Category(LoadScalar(c.id), LoadScalar(c.name), [i \in DOMAIN qs |-> to_q(qs[i])])

deserialize_ok(s) ==
    /\ s # NotJson
    /\ \A c \in Range(Get(s, "categories", <<>>)) : to_cat_ok(c)

deserialize_board(s) ==
    LET cats == Get(s, "categories", <<>>)
    IN  Board(LoadScalar(Get(s, "title", JStr("Jeopardy!"))),
              [i \in DOMAIN cats |-> to_cat(cats[i])])

----------------------------------------------------------------------------
(* Inputs of the model: what the host can type, pick and upload *)

CategoryNameInputs == {" History ", "   "}
PointInputs == {100, 200}
PromptInputs == {"P"}
AnswerInputs == {"A"}
TimerInputs == {MinTimer}
DurationInputs == {MinTimer, MinTimer + 1}
TeamNameInputs == {"A", " "}
TeamNames == {"A"}
MoreTeamNameInputs == TeamNameInputs \cup {" B "}
MoreTeamNames == TeamNames \cup {"B"}
ColorInputs == {"#4CAF50", "#fff"}

(* str.strip() on the texts the model types *)
Strip(s) ==
    CASE s = " History " -> "History"
      [] s = "   " -> ""
      [] s = " " -> ""
      [] s = " B " -> "B"
      [] s = " http://x/i.png " -> "http://x/i.png"
      [] OTHER -> s

(* base64.b64encode(f.read()).decode('utf-8') on the files the model uploads *)
b64encode(bytes) ==
    CASE bytes = <<>> -> ""
      [] bytes = <<0>> -> "AA=="
      [] bytes = <<255, 255>> -> "//8="
      [] OTHER -> "AAEC"

NoFile == [name |-> None, type |-> None, bytes |-> <<>>]
PngFile == [name |-> "i.png", type |-> "image/png", bytes |-> <<0>>]

MediaInputs ==
    { [img_files |-> <<PngFile>>, vid_file |-> NoFile, aud_file |-> NoFile,
       img_url |-> " http://x/i.png ", vid_url |-> "   ", aud_url |-> ""] }

(* The files the host has at hand for the "Load board (.json)" uploader *)
DocQuestion(id, points) ==
    [id |-> JStr(id), points |-> points, prompt |-> JStr("P"), answer |-> JStr("A"),
     media |-> <<[kind |-> JStr("image"), source |-> JStr("url"), filename |-> JNull,
                  mime |-> JNull, b64 |-> JNull, url |-> JStr("http://x/i.png")]>>,
     timer_seconds |-> JInt(DefaultTimer)]

(* hand-written: points as a decimal string, no media, no timer_seconds *)
DocQuestionBare(id, points) ==
    [id |-> JStr(id), points |-> points, prompt |-> JStr("P"), answer |-> JStr("A")]

(* hand-written, with a timer_seconds of its own *)
DocQuestionTimed(id, points, timer) ==
    [id |-> JStr(id), points |-> points, prompt |-> JStr("P"), answer |-> JStr("A"),
     timer_seconds |-> timer]

(* hand-written, with an "upload" media item that has no b64 and no url *)
DocQuestionMedia(id, points) ==
    [id |-> JStr(id), points |-> points, prompt |-> JStr("P"), answer |-> JStr("A"),
     media |-> <<[kind |-> JStr("image"), source |-> JStr("upload")]>>]

DocNoId == [points |-> JInt(100), prompt |-> JStr("P"), answer |-> JStr("A")]

DocCategory(id, qs) == [id |-> JStr(id), name |-> JStr("History"), questions |-> qs]

Uploads ==
    << [name |-> "saved.json", size |-> 400,
        json |-> [title |-> JStr("Quiz"),
                  categories |-> <<DocCategory("dc1", <<DocQuestion("dq1", JInt(100))>>),
                                   DocCategory("dc2", <<DocQuestion("dq2", JInt(200))>>)>>]],
       [name |-> "hand.json", size |-> 120,
        json |-> [categories |-> <<DocCategory("dc1", <<DocQuestionBare("dq1", JStr("200"))>>)>>]],
       [name |-> "noid.json", size |-> 200,
        json |-> [title |-> JStr("Broken"),
                  categories |-> <<DocCategory("dc3", <<DocQuestion("dq3", JInt(100))>>),
                                   DocCategory("dc4", <<DocNoId>>)>>]],
       [name |-> "badpoints.json", size |-> 210,
        json |-> [title |-> JStr("Broken"),
                  categories |-> <<DocCategory("dc3", <<DocQuestion("dq3", JInt(100)),
                                                        DocQuestionBare("dq4", JStr("abc"))>>)>>]],
       [name |-> "twice.json", size |-> 150,
        json |-> [categories |-> <<DocCategory("dc1", <<DocQuestionBare("dq1", JInt(100)),
                                                        DocQuestionBare("dq1", JInt(200))>>)>>]],
       [name |-> "below.json", size |-> 90,
        json |-> [categories |-> <<DocCategory("dc2", <<DocQuestionTimed("dq2", JInt(-100), JInt(0))>>)>>]],
       [name |-> "nofile.json", size |-> 130,
        json |-> [categories |-> <<DocCategory("dc2", <<DocQuestionMedia("dq2", JInt(100))>>)>>]] >>

NoUpload == 0

(* upload_id = f"{name}:{len(bytes_data)}" *)
upload_id(u) == Uploads[u].name \o ":" \o ToString(Uploads[u].size)

----------------------------------------------------------------------------
(* The state after ensure_state() on the first run *)

InitSession ==
    /\ used_qids = {}
    /\ active_qid = None
    /\ reveal_answer = FALSE
    /\ scores = [t \in {} |-> 0]
    /\ team_colors = [t \in {} |-> ""]
    /\ upload_board_last = None
    /\ uploaded = NoUpload
    /\ uuid_count = 0
    /\ pc = "idle"
    /\ remaining = 0
    /\ timer_qid = None
    /\ callback_stale = FALSE
    /\ intent = <<"none", "">>
    /\ was_used = {}
    /\ document = NoDoc

Init == board = new_board /\ InitSession

----------------------------------------------------------------------------
(* What every run of main() does besides the clicked widget *)

(* a loader that fills the board in place, category by category, and so   *)
(* keeps what it had parsed when the document turns out malformed          *)
load_block_in_place(b, up, last) ==
    IF up = NoUpload \/ last = (IF up = NoUpload THEN None ELSE upload_id(up))
    THEN [board |-> b, last |-> last, message |-> ""]
    ELSE IF deserialize_ok(Uploads[up].json)
         THEN [board |-> deserialize_board(Uploads[up].json),
               last |-> upload_id(up), message |-> "Board loaded."]
         ELSE LET cats == Get(Uploads[up].json, "categories", <<>>)
                  k == CHOOSE n \in 0..Len(cats) :
                          /\ \A i \in 1..n : to_cat_ok(cats[i])
                          /\ n < Len(cats) => ~to_cat_ok(cats[n + 1])
              IN  [board |-> Board(b.title, [i \in 1..k |-> to_cat(cats[i])]),
                   last |-> last, message |-> "Failed to load board"]

(* a loader that does not remember which upload it has applied *)
load_block_again(b, up, last) ==
    IF up = NoUpload
    THEN [board |-> b, last |-> last, message |-> ""]
    ELSE IF deserialize_ok(Uploads[up].json)
         THEN [board |-> deserialize_board(Uploads[up].json),
               last |-> upload_id(up), message |-> "Board loaded."]
         ELSE [board |-> b, last |-> last, message |-> "Failed to load board"]

(* sidebar_editor, "Upload a board JSON to load": runs on every rerun while *)
(* the uploader holds a file                                               *)
load_block(b, up, last) ==
    IF up = NoUpload \/ last = (IF up = NoUpload THEN None ELSE upload_id(up))
    THEN [board |-> b, last |-> last, message |-> ""]
    ELSE IF deserialize_ok(Uploads[up].json)
         THEN [board |-> deserialize_board(Uploads[up].json),
               last |-> upload_id(up), message |-> "Board loaded."]
         ELSE [board |-> b, last |-> last, message |-> "Failed to load board"]

(* A widget interaction starts a new run of main().  A script still in its *)
(* countdown is stopped by the Streamlit runtime at its next st.* use:     *)
(* timer_ph.markdown in the loop, or st.session_state where the expiry     *)
(* block begins.  So the run of a click finds the session state as the     *)
(* loop left it, with nothing marked used by the stopped countdown.        *)
Rerun(name, b) ==
    LET r == load_block(b, uploaded, upload_board_last)
    IN  /\ upload_board_last' = r.last
        /\ intent' = name
        /\ pc' = "idle"
        /\ remaining' = 0
        /\ timer_qid' = None
        /\ callback_stale' = (r.message = "Board loaded.")
        /\ UNCHANGED <<uploaded, document>>

(* The board render_board gets: st.session_state.board after the load block *)
Loaded(b) == load_block(b, uploaded, upload_board_last).board

(* render_board shows the viewer: active_qid is truthy and on the board *)
ViewerShown(b, active) == active # None /\ find_question(b, active) # NotFound

----------------------------------------------------------------------------
(* sidebar_editor *)

(* _add_category, the on_click callback of "Add Category".  Its argument   *)
(* is the Board that sidebar_editor held when the last run drew the button; *)
(* a run that loaded a document has put another Board into the session     *)
(* after that, and the callback then appends to the one left behind.       *)
AddCategory(raw) ==
    LET name == Strip(raw)
        b1 == IF name # "" /\ ~callback_stale
              THEN [board EXCEPT !.categories =
                        Append(@, Category(uuid4(uuid_count + 1), name, <<>>))]
              ELSE board
    IN  /\ name # "" => (Len(board.categories) < MaxCategories /\ uuid_count < MaxUuid)
        /\ uuid_count' = IF name # "" THEN uuid_count + 1 ELSE uuid_count
        /\ board' = Loaded(b1)
        /\ Rerun(<<"addCategory", "">>, b1)
        /\ UNCHANGED <<used_qids, active_qid, reveal_answer, scores, team_colors, was_used>>

(* "Remove" of a category, then st.rerun() *)
remove_category_used(b, used, cid) ==
    {qid \in used : find_question(b, qid) # NotFound}

remove_category_board(b, cid) ==
    [b EXCEPT !.categories = SelectSeq(@, LAMBDA c : c.id # cid)]

RemoveCategory(cid) ==
    LET b1 == remove_category_board(board, cid)
    IN  /\ cid \in CategoryIds(board)
        /\ used_qids' = remove_category_used(board, used_qids, cid)
        /\ board' = Loaded(b1)
        /\ Rerun(<<"removeCategory", cid>>, b1)
        /\ UNCHANGED <<active_qid, reveal_answer, scores, team_colors,
                       uuid_count, was_used>>

(* "Add Question to Category": the media list in the order the code builds it *)
upload_item(kind, f) ==
    MediaItem(kind, "upload", f.name, f.type, b64encode(f.bytes), None)

url_item(kind, url) == MediaItem(kind, "url", None, None, None, Strip(url))

build_media(in) ==
    [i \in DOMAIN in.img_files |-> upload_item("image", in.img_files[i])]
    \o (IF in.vid_file # NoFile THEN <<upload_item("video", in.vid_file)>> ELSE <<>>)
    \o (IF in.aud_file # NoFile THEN <<upload_item("audio", in.aud_file)>> ELSE <<>>)
    \o (IF Strip(in.img_url) # "" THEN <<url_item("image", in.img_url)>> ELSE <<>>)
    \o (IF Strip(in.vid_url) # "" THEN <<url_item("video", in.vid_url)>> ELSE <<>>)
    \o (IF Strip(in.aud_url) # "" THEN <<url_item("audio", in.aud_url)>> ELSE <<>>)

add_question(b, cid, q) ==
    [b EXCEPT !.categories[category_by_id(b, cid)].questions = Append(@, q)]

AddQuestion(cid, points, prompt, answer, timer, in) ==
    LET q == Question(uuid4(uuid_count + 1), points, prompt, answer, build_media(in), timer)
        b1 == add_question(board, cid, q)
    IN  /\ cid \in CategoryIds(board)
        /\ Len(AllQuestions(board)) < MaxQuestions /\ uuid_count < MaxUuid
        /\ uuid_count' = uuid_count + 1
        /\ board' = Loaded(b1)
        /\ Rerun(<<"addQuestion", "">>, b1)
        /\ UNCHANGED <<used_qids, active_qid, reveal_answer, scores, team_colors, was_used>>

(* "Apply Changes" on the question picked in "Choose question" *)
edit_question(b, qid, points, prompt, answer, timer) ==
    LET f == find_question(b, qid)
    IN  [b EXCEPT !.categories[f.cat].questions[f.q] =
            [@ EXCEPT !.points = points, !.prompt = prompt,
                      !.answer = answer, !.timer_seconds = timer]]

EditQuestion(qid, points, prompt, answer, timer) ==
    LET b1 == edit_question(board, qid, points, prompt, answer, timer)
    IN  /\ qid \in QuestionIds(board)
        /\ board' = Loaded(b1)
        /\ Rerun(<<"editQuestion", "">>, b1)
        /\ UNCHANGED <<used_qids, active_qid, reveal_answer, scores, team_colors,
                       uuid_count, was_used>>

(* "Delete Question", then st.rerun() *)
delete_question_board(b, qid) ==
    LET f == find_question(b, qid)
    IN  [b EXCEPT !.categories[f.cat].questions = SelectSeq(@, LAMBDA qq : qq.id # qid)]

delete_question_used(used, qid) == used \ {qid}

delete_question_active(active, qid) == active

RemoveQuestion(qid) ==
    LET b1 == delete_question_board(board, qid)
    IN  /\ qid \in QuestionIds(board)
        /\ used_qids' = delete_question_used(used_qids, qid)
        /\ active_qid' = delete_question_active(active_qid, qid)
        /\ board' = Loaded(b1)
        /\ Rerun(<<"removeQuestion", qid>>, b1)
        /\ UNCHANGED <<reveal_answer, scores, team_colors, uuid_count, was_used>>

(* The host puts file u into the "Load board (.json)" uploader *)
LoadDocument(u) ==
    LET r == load_block(board, u, upload_board_last)
    IN  /\ u # uploaded
        /\ uploaded' = u
        /\ board' = r.board
        /\ upload_board_last' = r.last
        /\ intent' = <<"loadDocument", r.message>>
        /\ pc' = "idle" /\ remaining' = 0 /\ timer_qid' = None
        /\ callback_stale' = (r.message = "Board loaded.")
        /\ UNCHANGED <<used_qids, active_qid, reveal_answer, scores, team_colors,
                       uuid_count, was_used, document>>

----------------------------------------------------------------------------
(* render_board: the grid of question buttons *)

(* sorted(c.questions, key=lambda q: q.points, reverse=True): the list is  *)
(* built up left to right, each question going behind those already there  *)
(* with points at least its own                                            *)
insert_before_ties(s, q) ==
    LET k == Cardinality({i \in DOMAIN s : s[i].points > q.points})
    IN  SubSeq(s, 1, k) \o <<q>> \o SubSeq(s, k + 1, Len(s))

insert_by_points(s, q) ==
    LET k == Cardinality({i \in DOMAIN s : s[i].points >= q.points})
    IN  SubSeq(s, 1, k) \o <<q>> \o SubSeq(s, k + 1, Len(s))

RECURSIVE sorted_by_points(_)
sorted_by_points(qs) ==
    IF qs = <<>> THEN <<>>
    ELSE insert_by_points(sorted_by_points(SubSeq(qs, 1, Len(qs) - 1)), qs[Len(qs)])

sorted_qs(b) == [i \in DOMAIN b.categories |-> sorted_by_points(b.categories[i].questions)]

(* a click that opens the question and leaves the answer as it was shown *)
select_question_keep_reveal(used, active, reveal, qid) ==
    IF qid \in used
    THEN [active |-> active, reveal |-> reveal]
    ELSE [active |-> qid, reveal |-> reveal]

(* a button that is never disabled *)
select_question_any(used, active, reveal, qid) == [active |-> qid, reveal |-> FALSE]

(* a question button: disabled when used, else a click opens the question *)
select_question(used, active, reveal, qid) ==
    IF qid \in used
    THEN [active |-> active, reveal |-> reveal]
    ELSE [active |-> qid, reveal |-> FALSE]

SelectRun(qid) ==
    LET b == Loaded(board)
        r == IF qid \in QuestionIds(b)
             THEN select_question(used_qids, active_qid, reveal_answer, qid)
             ELSE [active |-> active_qid, reveal |-> reveal_answer]
    IN  /\ active_qid' = r.active
        /\ reveal_answer' = r.reveal
        /\ board' = b
        /\ Rerun(<<"selectQuestion", qid>>, board)
        /\ UNCHANGED <<used_qids, scores, team_colors, uuid_count, was_used>>

SelectQuestion(qid) ==
    /\ qid \in QuestionIds(board)
    /\ SelectRun(qid)

(* the button drawn in column c_idx, row `row` of the grid *)
ClickCell(c_idx, row) ==
    /\ c_idx \in DOMAIN board.categories
    /\ row \in DOMAIN sorted_qs(board)[c_idx]
    /\ SelectQuestion(sorted_qs(board)[c_idx][row].id)

(* a loop that holds the first question of the board *)
timer_question_first(b, active) == AllQuestions(b)[1].id

(* cat, q = sel: the question the viewer and its countdown loop hold *)
timer_question(b, active) ==
    LET f == find_question(b, active)
    IN  b.categories[f.cat].questions[f.q].id

(* a Start Timer that does not store the chosen duration *)
start_timer_unsaved(b, qid, timer_val) == b

(* "Start Timer": the chosen duration is stored, then the loop shows it *)
start_timer(b, qid, timer_val) ==
    LET f == find_question(b, qid)
    IN  [b EXCEPT !.categories[f.cat].questions[f.q].timer_seconds = timer_val]

StartTimer(timer_val) ==
    LET r == load_block(board, uploaded, upload_board_last)
    IN  /\ ViewerShown(r.board, active_qid)
        /\ board' = start_timer(r.board, active_qid, timer_val)
        /\ upload_board_last' = r.last
        /\ pc' = "countdown"
        /\ remaining' = timer_val
        /\ timer_qid' = timer_question(r.board, active_qid)
        /\ callback_stale' = (r.message = "Board loaded.")
        /\ intent' = <<IF pc = "countdown" THEN "restartTimer" ELSE "startTimer", active_qid>>
        /\ UNCHANGED <<used_qids, active_qid, reveal_answer, scores, team_colors,
                       uploaded, uuid_count, was_used, document>>

(* one pass of the loop: time.sleep(1), then the next value is shown *)
tick(r) == r - 1

Tick ==
    /\ pc = "countdown"
    /\ remaining > 0
    /\ remaining' = tick(remaining)
    /\ intent' = <<"tick", timer_qid>>
    /\ UNCHANGED <<board, used_qids, active_qid, reveal_answer, scores, team_colors,
                   upload_board_last, uploaded, uuid_count, pc, timer_qid,
                   callback_stale, was_used, document>>

(* an expiry that closes the viewer and marks nothing *)
expire_used_none(used, qid) == used

(* "time's up": the loop has shown 0 and slept; q is the loop's question. *)
(* The three assignments are one step, as are those of every button.      *)
expire_used(used, qid) == used \cup {qid}

Expire ==
    /\ pc = "countdown"
    /\ remaining = 0
    /\ used_qids' = expire_used(used_qids, timer_qid)
    /\ was_used' = was_used \cup (used_qids' \ used_qids)
    /\ active_qid' = None
    /\ reveal_answer' = FALSE
    /\ pc' = "idle"
    /\ timer_qid' = None
    /\ intent' = <<"expire", timer_qid>>
    /\ UNCHANGED <<board, scores, team_colors, upload_board_last, uploaded,
                   uuid_count, remaining, callback_stale, document>>

----------------------------------------------------------------------------
(* render_board: the viewer of the active question and the bottom controls *)

RevealAnswer ==
    /\ ViewerShown(Loaded(board), active_qid)
    /\ reveal_answer' = TRUE
    /\ board' = Loaded(board)
    /\ Rerun(<<"revealAnswer", active_qid>>, board)
    /\ UNCHANGED <<used_qids, active_qid, scores, team_colors, uuid_count,
                   was_used>>

HideAnswer ==
    /\ ViewerShown(Loaded(board), active_qid)
    /\ reveal_answer' = FALSE
    /\ board' = Loaded(board)
    /\ Rerun(<<"hideAnswer", active_qid>>, board)
    /\ UNCHANGED <<used_qids, active_qid, scores, team_colors, uuid_count,
                   was_used>>

(* an assignment in place of set.add *)
mark_used_only(used, qid) == {qid}

mark_used(used, qid) == used \cup {qid}

(* a Mark Used that leaves the viewer open *)
mark_used_active_keep(active) == active

mark_used_active(active) == None

MarkUsed ==
    /\ ViewerShown(Loaded(board), active_qid)
    /\ used_qids' = mark_used(used_qids, active_qid)
    /\ was_used' = was_used \cup (used_qids' \ used_qids)
    /\ active_qid' = mark_used_active(active_qid)
    /\ reveal_answer' = FALSE
    /\ board' = Loaded(board)
    /\ Rerun(<<"markUsed", active_qid>>, board)
    /\ UNCHANGED <<scores, team_colors, uuid_count>>

(* a Close that does what Mark Used does *)
close_used_marks(used, qid) == used \cup {qid}

close_used(used, qid) == used

(* a Close that leaves the answer shown *)
close_reveal_keep(reveal) == reveal

close_reveal(reveal) == FALSE

CloseActive ==
    /\ ViewerShown(Loaded(board), active_qid)
    /\ used_qids' = close_used(used_qids, active_qid)
    /\ active_qid' = None
    /\ reveal_answer' = close_reveal(reveal_answer)
    /\ board' = Loaded(board)
    /\ Rerun(<<"closeActive", active_qid>>, board)
    /\ UNCHANGED <<scores, team_colors, uuid_count, was_used>>

(* a reset that forgets the used set *)
reset_used_keep(used) == used

(* the bottom controls are drawn only when the board has a category *)
reset_used(used) == {}

ResetRun ==
    /\ used_qids' = reset_used(used_qids)
    /\ was_used' = {}
    /\ active_qid' = None
    /\ reveal_answer' = FALSE
    /\ board' = Loaded(board)
    /\ Rerun(<<"resetUsed", "">>, board)
    /\ UNCHANGED <<scores, team_colors, uuid_count>>

ResetUsed ==
    /\ Loaded(board).categories # <<>>
    /\ ResetRun

ToggleRevealAll ==
    /\ Loaded(board).categories # <<>>
    /\ reveal_answer' = ~reveal_answer
    /\ board' = Loaded(board)
    /\ Rerun(<<"toggleRevealAll", "">>, board)
    /\ UNCHANGED <<used_qids, active_qid, scores, team_colors, uuid_count,
                   was_used>>

----------------------------------------------------------------------------
(* Scoreboard: inc_score, remove_team, _add_team *)

EmptyMap == [t \in {} |-> 0]

(* a score that is kept at zero or above *)
inc_score_floor(sc, team, delta) ==
    IF team \in DOMAIN sc
    THEN [sc EXCEPT ![team] = IF @ + delta < 0 THEN 0 ELSE @ + delta]
    ELSE sc

(* scores[team] = scores.get(team, 0) + delta *)
inc_score_create(sc, team, delta) ==
    [t \in DOMAIN sc \cup {team} |->
        (IF t \in DOMAIN sc THEN sc[t] ELSE 0) + (IF t = team THEN delta ELSE 0)]

inc_score(sc, team, delta) ==
    IF team \in DOMAIN sc THEN [sc EXCEPT ![team] = @ + delta] ELSE sc

remove_team(m, team) == [t \in DOMAIN m \ {team} |-> m[t]]

setdefault(m, k, v) ==
    IF k \in DOMAIN m THEN m ELSE [t \in DOMAIN m \cup {k} |-> IF t = k THEN v ELSE m[t]]

ScoreRun(name) ==
    /\ board' = Loaded(board)
    /\ Rerun(name, board)
    /\ UNCHANGED <<used_qids, active_qid, reveal_answer, uuid_count, was_used>>

(* a check that lets the empty name through *)
add_team_ok_any(sc, name) == name \notin DOMAIN sc

(* if name and name not in st.session_state.scores *)
add_team_ok(sc, name) == name # "" /\ name \notin DOMAIN sc

AddTeam(raw, color) ==
    LET name == Strip(raw)
        ok == add_team_ok(scores, name)
    IN  /\ scores' = IF ok THEN setdefault(scores, name, 0) ELSE scores
        /\ team_colors' = IF ok THEN setdefault(team_colors, name, color) ELSE team_colors
        /\ ScoreRun(<<"addTeam", Strip(raw) \o "/" \o color>>)

AdjustScore(team, delta) ==
    /\ team \in DOMAIN scores =>
         /\ scores[team] + delta <= MaxScoreClicks * ScoreStep
         /\ scores[team] + delta >= -(MaxScoreClicks * ScoreStep)
    /\ scores' = inc_score(scores, team, delta)
    /\ UNCHANGED team_colors
    /\ ScoreRun(<<"adjustScore", team>>)

(* a removal that forgets the colour map *)
pop_color_kept(colors, team) == colors

(* st.session_state.team_colors.pop(team, None) *)
pop_color(colors, team) == [t \in DOMAIN colors \ {team} |-> colors[t]]

RemoveTeam(team) ==
    /\ scores' = IF team \in DOMAIN scores THEN remove_team(scores, team) ELSE scores
    /\ team_colors' = IF team \in DOMAIN scores THEN pop_color(team_colors, team)
                      ELSE team_colors
    /\ ScoreRun(<<"removeTeam", team>>)

----------------------------------------------------------------------------
(* The intents *)

Create ==
    \/ \E raw \in CategoryNameInputs : AddCategory(raw)
    \/ \E cid \in CategoryIds(board), points \in PointInputs, prompt \in PromptInputs,
          answer \in AnswerInputs, in \in MediaInputs :
            AddQuestion(cid, points, prompt, answer, DefaultTimer, in)

Edit ==
    \E qid \in QuestionIds(board), points \in PointInputs, prompt \in PromptInputs,
       answer \in AnswerInputs, timer \in TimerInputs :
            EditQuestion(qid, points, prompt, answer, timer)

Remove ==
    \/ \E cid \in CategoryIds(board) : RemoveCategory(cid)
    \/ \E qid \in QuestionIds(board) : RemoveQuestion(qid)

Load == \E u \in DOMAIN Uploads : LoadDocument(u)

PlayUntimed ==
    \/ \E qid \in QuestionIds(board) : SelectQuestion(qid)
    \/ RevealAnswer
    \/ HideAnswer
    \/ MarkUsed
    \/ CloseActive
    \/ ResetUsed
    \/ ToggleRevealAll

Countdown ==
    \/ \E v \in DurationInputs : StartTimer(v)
    \/ Tick
    \/ Expire

Scoreboard ==
    \/ \E raw \in TeamNameInputs, color \in ColorInputs : AddTeam(raw, color)
    \/ \E team \in TeamNames, delta \in {ScoreStep, -ScoreStep} : AdjustScore(team, delta)
    \/ \E team \in TeamNames : RemoveTeam(team)

(* Play: the loader, the pruning editor intents, the question lifecycle   *)
(* and the countdown                                                       *)
Next == Remove \/ Load \/ PlayUntimed \/ Countdown

Spec == Init /\ [][Next]_vars

(* The countdown loop runs on unless a click stops the script *)
LiveSpec == Spec /\ WF_vars(Tick) /\ WF_vars(Expire)

(* Play with the scoreboard *)
NextGame == Load \/ PlayUntimed \/ Scoreboard

GameSpec == Init /\ [][NextGame]_vars

(* The scoreboard alone, with two teams *)
NextScore ==
    \/ \E raw \in MoreTeamNameInputs, color \in ColorInputs : AddTeam(raw, color)
    \/ \E team \in MoreTeamNames, delta \in {ScoreStep, -ScoreStep} : AdjustScore(team, delta)
    \/ \E team \in MoreTeamNames : RemoveTeam(team)

ScoreSpec == Init /\ [][NextScore]_vars

(* Authoring: the editor and the loader *)
NextEdit == Create \/ Edit \/ Remove \/ Load

EditSpec == Init /\ [][NextEdit]_vars

(* The editor at work on a loaded board while the file stays in the        *)
(* uploader: a well-formed file, a hand-written one and a malformed one,   *)
(* and one filling of each form                                            *)
LingerFiles == {u \in DOMAIN Uploads : Uploads[u].name \in {"saved.json", "hand.json", "noid.json"}}

NextLinger ==
    \/ \E u \in LingerFiles : LoadDocument(u)
    \/ \E raw \in CategoryNameInputs : AddCategory(raw)
    \/ \E cid \in CategoryIds(board), in \in MediaInputs :
          AddQuestion(cid, ScoreStep, "P", "A", DefaultTimer, in)
    \/ \E qid \in QuestionIds(board) : EditQuestion(qid, ScoreStep + ScoreStep, "P", "A", MinTimer)
    \/ Remove

LingerSpec == Init /\ [][NextLinger]_vars

----------------------------------------------------------------------------
(* Save and load of one board: the download button hands out               *)
(* serialize_board(board), the uploader reads it back                      *)

RTMediaItems ==
    { upload_item("image", PngFile),
      url_item("video", " http://x/i.png "),
      MediaItem("audio", "upload", None, None, "", None) }

RTMediaLists ==
    {<<>>} \cup {<<m>> : m \in RTMediaItems}
           \cup {ms \in RTMediaItems \X RTMediaItems : ms[1] # ms[2]}

RTQuestions ==
    { Question("q1", points, prompt, "A", media, timer) :
        points \in {0, 200}, prompt \in {"P", ""}, media \in RTMediaLists,
        timer \in {MinTimer, DefaultTimer} }

RTLastQuestion == Question("q2", 100, "P2", "A2", <<>>, DefaultTimer)

RTCategories ==
    { Category("c1", name, qs) :
        name \in {"History", ""},
        qs \in {<<>>} \cup {<<q>> : q \in RTQuestions}
                      \cup {<<q, RTLastQuestion>> : q \in RTQuestions} }

RTLastCategory == Category("c2", "Science", <<RTLastQuestion>>)

RTBoards ==
    { Board(title, cats) :
        title \in {"Jeopardy!", ""},
        cats \in {<<>>} \cup {<<c>> : c \in RTCategories}
                        \cup {<<c, RTLastCategory>> : c \in RTCategories}
                        \cup {<<RTLastCategory, c>> : c \in RTCategories} }

InitRoundTrip == board \in RTBoards /\ InitSession

SaveDocument ==
    /\ document' = serialize_board(board)
    /\ intent' = <<"saveDocument", "">>
    /\ UNCHANGED <<board, used_qids, active_qid, reveal_answer, scores, team_colors,
                   upload_board_last, uploaded, uuid_count, pc, remaining,
                   timer_qid, callback_stale, was_used>>

LoadSaved ==
    /\ document # NoDoc
    /\ deserialize_ok(document)
    /\ board' = deserialize_board(document)
    /\ intent' = <<"loadSaved", "">>
    /\ UNCHANGED <<used_qids, active_qid, reveal_answer, scores, team_colors,
                   upload_board_last, uploaded, uuid_count, pc, remaining,
                   timer_qid, callback_stale, was_used, document>>

NextRoundTrip == SaveDocument \/ LoadSaved

RoundTripSpec == InitRoundTrip /\ [][NextRoundTrip]_vars

----------------------------------------------------------------------------
(* The grid: one category of up to MaxShown questions, in every order of   *)
(* insertion of the points values, edited and clicked                      *)

ShownPoints == {100, 200, 300}

RECURSIVE ShownLists(_)
ShownLists(n) ==
    IF n = 0 THEN {<<>>}
    ELSE ShownLists(n - 1) \cup
         { Append(qs, Question("q" \o ToString(Len(qs) + 1), points, "P", "A", <<>>, DefaultTimer)) :
             qs \in {l \in ShownLists(n - 1) : Len(l) = n - 1}, points \in ShownPoints }

ShownBoards == { Board("Jeopardy!", <<Category("c1", "History", qs)>>) : qs \in ShownLists(MaxShown) }

InitShown == board \in ShownBoards /\ InitSession

NextShown ==
    \/ \E c_idx \in 1..MaxCategories, row \in 1..MaxShown : ClickCell(c_idx, row)
    \/ \E qid \in QuestionIds(board), points \in PointInputs :
          EditQuestion(qid, points, "P", "A", DefaultTimer)

ShownSpec == InitShown /\ [][NextShown]_vars

----------------------------------------------------------------------------
(* Properties *)

(* C1: removeCategory(c) takes every question of c out of used_qids and    *)
(* sets active_qid to None if it pointed at a question of c, in the step   *)
(* that removes c from the board.                                          *)
C1_RemoveCategoryPrunes ==
    [][\A cid \in CategoryIds(board) :
         RemoveCategory(cid) =>
            LET inside == {q.id : q \in Range(board.categories[category_by_id(board, cid)].questions)}
            IN  /\ cid \notin CategoryIds(board')
                /\ used_qids' \cap inside = {}
                /\ active_qid \in inside => active_qid' = None]_vars

(* C2, as stated: an id that was marked used is never the active question  *)
(* again until a reset.                                                    *)
C2_NeverActiveAgain == active_qid \notin was_used

(* C2: while q stays in used_qids no step makes active_qid equal to q; a   *)
(* select of a used q is rejected when it is processed.                    *)
C2_UsedNotSelected ==
    [][\A q \in used_qids \cap used_qids' : active_qid' # q]_vars

C2_RejectedSelect ==
    /\ intent[1] = "selectQuestion"
    /\ intent[2] \in used_qids
    /\ intent[2] \in QuestionIds(board)
    /\ active_qid # intent[2]

(* C3: markUsed on the active question q, revealed or not, leaves q in     *)
(* used_qids, active_qid None, reveal_answer false, and the membership of  *)
(* every other id as it was.                                               *)
C3_MarkUsed ==
    [][MarkUsed =>
         /\ active_qid \in used_qids'
         /\ active_qid' = None
         /\ reveal_answer' = FALSE
         /\ used_qids' \ {active_qid} = used_qids \ {active_qid}]_vars

C3_Marked ==
    /\ intent[1] = "markUsed"
    /\ intent[2] \in used_qids
    /\ Cardinality(used_qids) = 2
    /\ active_qid = None
    /\ reveal_answer = FALSE

(* C4: removeQuestion(q) takes q out of its category and out of used_qids  *)
(* and sets active_qid to None if it was q.                                *)
C4_RemoveQuestionClears ==
    [][\A qid \in QuestionIds(board) :
         RemoveQuestion(qid) =>
            /\ qid \notin QuestionIds(board')
            /\ qid \notin used_qids'
            /\ active_qid = qid => active_qid' = None]_vars

(* C5: the document written from a board reads back as that board, field   *)
(* for field: deserialize_board(serialize_board(b)) = b.                   *)
C5_RoundTrip ==
    document # NoDoc => /\ deserialize_ok(document)
                        /\ deserialize_board(document) = board

C5_LoadedBack ==
    /\ intent[1] = "loadSaved"
    /\ document = serialize_board(board)
    /\ board.title = ""
    /\ \E c \in Range(board.categories) : \E q \in Range(c.questions) :
          Len(q.media) = 2 /\ q.timer_seconds = MinTimer /\ q.points = 0

(* C6: a load of a malformed document reports the failure and leaves the   *)
(* board as it was; nothing of the partly parsed document is on it.        *)
C6_MalformedLoad ==
    [][\A u \in DOMAIN Uploads :
         (LoadDocument(u) /\ ~deserialize_ok(Uploads[u].json)) =>
            /\ board' = board
            /\ intent' = <<"loadDocument", "Failed to load board">>]_vars

C6_FailedLoad ==
    /\ intent = <<"loadDocument", "Failed to load board">>
    /\ uploaded # NoUpload
    /\ ~deserialize_ok(Uploads[uploaded].json)
    /\ board.categories # <<>>
    /\ "dc3" \notin CategoryIds(board)

(* C7: a countdown started for q and not stopped by a click reaches zero,  *)
(* and its expiry leaves q in used_qids, active_qid None and reveal_answer *)
(* false.                                                                  *)
TimerCancelled == intent[1] \notin {"startTimer", "tick", "expire"}

TimerExpired(q) ==
    /\ intent = <<"expire", q>>
    /\ q \in used_qids
    /\ active_qid = None
    /\ reveal_answer = FALSE

C7_CountdownExpires ==
    \A q \in {"dq1", "dq2"} :
        (pc = "countdown" /\ timer_qid = q /\ intent[1] # "restartTimer")
            ~> (TimerCancelled \/ TimerExpired(q))

C7_Expired == \E q \in QuestionIds(board) : TimerExpired(q)

(* C8: a click during the countdown of q (another question, Close, Reset,  *)
(* Start Timer) ends that countdown: q is not added to used_qids, the only *)
(* countdown left is a fresh one on the active question, and an expiry     *)
(* only ever closes the question it was started for.                       *)
NavigateAway ==
    \/ \E qid \in QuestionIds(board) : SelectQuestion(qid)
    \/ CloseActive
    \/ ResetUsed
    \/ \E v \in DurationInputs : StartTimer(v)

C9_CloseActive ==
    [][CloseActive =>
         /\ active_qid' = None
         /\ reveal_answer' = FALSE
         /\ used_qids' = used_qids
         /\ active_qid \notin used_qids =>
               select_question(used_qids', active_qid', reveal_answer', active_qid).active
                   = active_qid]_vars

C9_Closed ==
    /\ intent[1] = "closeActive"
    /\ intent[2] \in QuestionIds(board) \ used_qids
    /\ used_qids # {}
    /\ active_qid = None
    /\ reveal_answer = FALSE

(* C10: resetUsed empties used_qids, sets active_qid None and              *)
(* reveal_answer false in one step, and leaves the board, the scores and   *)
(* the team colours as they were.                                          *)
C10_ResetUsed ==
    [][ResetUsed =>
         /\ used_qids' = {}
         /\ active_qid' = None
         /\ reveal_answer' = FALSE
         /\ board' = board
         /\ scores' = scores
         /\ team_colors' = team_colors]_vars

C10_Reset ==
    /\ intent[1] = "resetUsed"
    /\ used_qids = {}
    /\ active_qid = None
    /\ board.categories # <<>>
    /\ \E t \in DOMAIN scores : scores[t] = ScoreStep /\ team_colors[t] = "#fff"

(* C11: a category is shown in its insertion order stably sorted by points *)
(* descending: no question stands before one of higher points, and of two  *)
(* questions of equal points the one inserted first stands first.          *)
C11_DisplayOrder ==
    \A c \in DOMAIN board.categories :
        LET qs == board.categories[c].questions
            shown == sorted_qs(board)[c]
            pos(q) == CHOOSE i \in DOMAIN qs : qs[i] = q
        IN  /\ Len(shown) = Len(qs)
            /\ Range(shown) = Range(qs)
            /\ \A i, j \in DOMAIN shown :
                  i < j => /\ shown[i].points >= shown[j].points
                           /\ shown[i].points = shown[j].points
                                 => pos(shown[i]) < pos(shown[j])

C11_TieClicked ==
    /\ intent[1] = "selectQuestion"
    /\ active_qid = "q3"
    /\ LET qs == board.categories[1].questions
       IN  /\ Len(qs) = 3
           /\ qs[1].points = qs[3].points
           /\ qs[2].points > qs[1].points
           /\ sorted_qs(board)[1][3].id = "q3"

(* C12: a new team starts at 0 and every adjustScore on a team that is     *)
(* there adds its delta to that team's score and to nothing else, with no  *)
(* floor and no ceiling: the score is the sum of the deltas, and it can be *)
(* negative.                                                               *)
C12_ScoreIsSum ==
    [][/\ \A team \in MoreTeamNames, delta \in {ScoreStep, -ScoreStep} :
            (AdjustScore(team, delta) /\ team \in DOMAIN scores) =>
                /\ DOMAIN scores' = DOMAIN scores
                /\ scores'[team] = scores[team] + delta
                /\ \A t \in DOMAIN scores \ {team} : scores'[t] = scores[t]
       /\ \A t \in DOMAIN scores' \ DOMAIN scores : scores'[t] = 0]_vars

C12_NegativeTotal ==
    /\ intent = <<"adjustScore", "A">>
    /\ DOMAIN scores = {"A", "B"}
    /\ scores["A"] = -(ScoreStep + ScoreStep)
    /\ scores["B"] = ScoreStep

(* C13: adjustScore and removeTeam for a name that is not in scores leave  *)
(* scores and team_colors as they were; an adjustScore after the team was  *)
(* removed does not bring the team back.                                   *)
C13_AbsentTeamNoOp ==
    [][\A team \in MoreTeamNames :
         (/\ team \notin DOMAIN scores
          /\ \/ \E delta \in {ScoreStep, -ScoreStep} : AdjustScore(team, delta)
             \/ RemoveTeam(team))
         => /\ scores' = scores
            /\ team_colors' = team_colors]_vars

C13_AbsentAdjusted ==
    /\ intent = <<"adjustScore", "A">>
    /\ "A" \notin DOMAIN scores
    /\ "A" \notin DOMAIN team_colors
    /\ "B" \in DOMAIN scores
    /\ scores["B"] = ScoreStep

(* C14: addTeam with a name that is empty after trimming, or that is in    *)
(* scores already, leaves scores and team_colors as they were (the score   *)
(* is not set back to 0, the colour is not overwritten); any other name is *)
(* inserted with score 0 and the given colour.                             *)
C14_AddTeam ==
    [][\A raw \in MoreTeamNameInputs, color \in ColorInputs :
         AddTeam(raw, color) =>
            LET name == Strip(raw)
            IN  IF name = "" \/ name \in DOMAIN scores
                THEN scores' = scores /\ team_colors' = team_colors
                ELSE /\ DOMAIN scores' = DOMAIN scores \cup {name}
                     /\ DOMAIN team_colors' = DOMAIN team_colors \cup {name}
                     /\ scores'[name] = 0
                     /\ team_colors'[name] = color
                     /\ \A t \in DOMAIN scores : scores'[t] = scores[t]
                     /\ \A t \in DOMAIN team_colors : team_colors'[t] = team_colors[t]]_vars

C14_ExistingKept ==
    /\ intent = <<"addTeam", "A/#4CAF50">>
    /\ "A" \in DOMAIN scores
    /\ scores["A"] = ScoreStep
    /\ team_colors["A"] = "#fff"

(* C15: on the board, whatever way it was reached (loadDocument included), *)
(* no two categories share an id, no two questions share an id, and no     *)
(* category id is a question id.                                           *)
C15_IdsDistinct ==
    /\ Cardinality(CategoryIds(board)) = Len(board.categories)
    /\ Cardinality(QuestionIds(board)) = Len(AllQuestions(board))
    /\ CategoryIds(board) \cap QuestionIds(board) = {}

(* C16: on the board, whatever way it was reached (addQuestion,            *)
(* editQuestion, startTimer, loadDocument), every question has points of   *)
(* 0 or more and timer_seconds of 1 or more.                               *)
C16_PointsAndTimerInRange ==
    \A q \in Range(AllQuestions(board)) : q.points >= 0 /\ q.timer_seconds >= 1

(* C17: on the board, whatever way it was reached (addQuestion,            *)
(* loadDocument), every media item has exactly one of b64 and url, and it  *)
(* is the one its source names: b64 for "upload", url for "url".           *)
C17_MediaOneOf ==
    \A q \in Range(AllQuestions(board)) : \A m \in Range(q.media) :
        \/ m.source = "upload" /\ m.b64 # None /\ m.url = None
        \/ m.source = "url" /\ m.url # None /\ m.b64 = None

(* C18: addCategory with a name that is not empty after trimming appends   *)
(* one category with a fresh id, the trimmed name and no questions behind  *)
(* the categories that were there, which stay as they were; with an empty  *)
(* name it leaves the board as it was.                                     *)
C18_AddCategoryAppends ==
    [][\A raw \in CategoryNameInputs :
         AddCategory(raw) =>
            IF Strip(raw) = ""
            THEN board' = board
            ELSE /\ board'.title = board.title
                 /\ Len(board'.categories) = Len(board.categories) + 1
                 /\ SubSeq(board'.categories, 1, Len(board.categories)) = board.categories
                 /\ LET c == board'.categories[Len(board'.categories)]
                    IN  /\ c.name = Strip(raw)
                        /\ c.questions = <<>>
                        /\ c.id \notin CategoryIds(board) \cup QuestionIds(board)]_vars

(* C19: selectQuestion(q) for a q that is not used makes q the active      *)
(* question and sets reveal_answer false, whatever they were (another      *)
(* question open, the answer shown), and leaves used_qids as it was.       *)
C19_SelectUnused ==
    [][\A qid \in QuestionIds(board) :
         (SelectQuestion(qid) /\ qid \notin used_qids) =>
            /\ active_qid' = qid
            /\ reveal_answer' = FALSE
            /\ used_qids' = used_qids]_vars

C19_Selected ==
    /\ intent = <<"selectQuestion", "dq2">>
    /\ active_qid = "dq2"
    /\ reveal_answer = FALSE
    /\ used_qids = {"dq1"}
    /\ {"dq1", "dq2"} \subseteq QuestionIds(board)

(* C20: startTimer with duration v stores v in the question before the     *)
(* first tick, so the document written from the board holds v; the loop    *)
(* shows v first and one less with every tick, changing nothing else; the  *)
(* countdown puts its question into used_qids only once 0 has been shown,  *)
(* and the expiry leaves the stored v on the board.                        *)
C20_TimerStoredAndCounted ==
    [][/\ \A v \in DurationInputs :
            StartTimer(v) =>
               LET f == find_question(board', active_qid)
               IN  /\ board'.categories[f.cat].questions[f.q].timer_seconds = v
                   /\ serialize_board(board').categories[f.cat].questions[f.q].timer_seconds
                         = JInt(v)
                   /\ remaining' = v
                   /\ used_qids' = used_qids
       /\ Tick => /\ remaining' = remaining - 1
                  /\ remaining' >= 0
                  /\ board' = board
                  /\ used_qids' = used_qids
       /\ (pc = "countdown" /\ timer_qid \in used_qids' \ used_qids) =>
               remaining = 0 \/ MarkUsed
       /\ Expire => board' = board]_vars

C20_StoredAfterExpiry ==
    \E q \in QuestionIds(board) :
        LET f == find_question(board, q)
        IN  /\ intent = <<"expire", q>>
            /\ q \in used_qids
            /\ serialize_board(board).categories[f.cat].questions[f.q].timer_seconds
                  = JInt(MinTimer + 1)

(* C21, as stated: reveal_answer is true only while a question is active.  *)
C21_RevealOnlyWhileActive == reveal_answer => active_qid # None

(* C21: every step that takes active_qid from a question to None sets      *)
(* reveal_answer false; Reveal Answer acts only on an active question and  *)
(* leaves it active; a step that turns reveal_answer on and ends with no   *)
(* active question is the "Reveal All Answers" toggle, which flips the     *)
(* flag whether or not a question is active.                               *)
C21_ClearedWithActive ==
    [][/\ (active_qid # None /\ active_qid' = None) => reveal_answer' = FALSE
       /\ RevealAnswer => (active_qid # None /\ active_qid' = active_qid)
       /\ (reveal_answer' /\ ~reveal_answer /\ active_qid' = None)
             => intent'[1] = "toggleRevealAll"
       /\ ToggleRevealAll => (reveal_answer' = ~reveal_answer /\ active_qid' = active_qid)]_vars

C21_ToggledWithoutActive ==
    /\ intent[1] = "toggleRevealAll"
    /\ reveal_answer
    /\ active_qid = None
    /\ used_qids # {}

(* C22: after any sequence of intents (removeCategory, removeQuestion and  *)
(* a successful loadDocument included) every id in used_qids, and          *)
(* active_qid when it is not None, is the id of a question on the board.   *)
C22_SessionIdsOnBoard ==
    /\ used_qids \subseteq QuestionIds(board)
    /\ active_qid # None => active_qid \in QuestionIds(board)

(* C23: the active question is never in used_qids: Mark Used and the       *)
(* expiry of the countdown clear active_qid in the step that adds the      *)
(* question, and a click opens only a question that is not used.           *)
C23_ActiveNotUsed == active_qid \notin used_qids

C23_ExpiredAndCleared ==
    \E q \in QuestionIds(board) :
        /\ intent = <<"expire", q>>
        /\ Cardinality(used_qids) = 2
        /\ q \in used_qids
        /\ active_qid = None

(* C24: the team names in scores are the team names in team_colors:        *)
(* addTeam inserts into both, removeTeam deletes from both, and nothing    *)
(* else changes either key set.                                            *)
C24_SameTeams == DOMAIN scores = DOMAIN team_colors

C24_OneTeamLeft ==
    /\ intent = <<"removeTeam", "A">>
    /\ DOMAIN scores = {"B"}
    /\ DOMAIN team_colors = {"B"}
    /\ scores["B"] = -ScoreStep

(* C25: an upload that stays in the uploader is applied once.  In every    *)
(* later step taken while the same file (same name and length) is still    *)
(* there the board is what the clicked control made of it: Add Question    *)
(* appends one question to what was there, Apply Changes rewrites the four *)
(* fields of one question, Delete Question and Remove filter one id out,   *)
(* and Add Category keeps every category that was there; nothing goes back *)
(* to the uploaded document.                                               *)
Applied == uploaded # NoUpload /\ upload_board_last = upload_id(uploaded)

C25_AppliedOnce ==
    [][(Applied /\ uploaded' = uploaded) =>
         /\ upload_board_last' = upload_board_last
         /\ intent'[1] \notin {"addCategory", "removeCategory", "addQuestion",
                                "editQuestion", "removeQuestion"}
               => board' = board
         /\ intent'[1] = "addCategory" =>
               /\ board'.title = board.title
               /\ Len(board'.categories) \in {Len(board.categories), Len(board.categories) + 1}
               /\ SubSeq(board'.categories, 1, Len(board.categories)) = board.categories
         /\ intent'[1] = "addQuestion" =>
               \E k \in DOMAIN board.categories :
                   /\ Len(board'.categories[k].questions) = Len(board.categories[k].questions) + 1
                   /\ [board' EXCEPT !.categories[k].questions = SubSeq(@, 1, Len(@) - 1)] = board
         /\ intent'[1] = "editQuestion" =>
               \E qid \in QuestionIds(board) :
                   LET f == find_question(board, qid)
                       q == board'.categories[f.cat].questions[f.q]
                   IN  board' = edit_question(board, qid, q.points, q.prompt, q.answer,
                                              q.timer_seconds)
         /\ \A qid \in QuestionIds(board) :
               RemoveQuestion(qid) => board' = delete_question_board(board, qid)
         /\ \A cid \in CategoryIds(board) :
               RemoveCategory(cid) => board' = remove_category_board(board, cid)]_vars

C25_EditedAfterLoad ==
    /\ Applied
    /\ intent[1] = "addQuestion"
    /\ Len(AllQuestions(board)) =
          Len(AllQuestions(deserialize_board(Uploads[uploaded].json))) + 1
    /\ \E q \in Range(AllQuestions(board)) : q.timer_seconds = MinTimer

====
